---------------------------- MODULE Spec2Model ----------------------------
(***************************************************************************)
(* A model of the simulation core of the arcade driving game:              *)
(*   - GameEngine      (src/unnamed/part_004)   the orchestrator / loop    *)
(*   - CarController   (src/src/lib/game/CarController.ts)                 *)
(*   - ObstacleManager (src/src/components/MainMenu.tsx, from line 144)    *)
(*   - CollisionDetector (src/src/lib/game/CollisionDetector.ts)           *)
(*   - ScoreManager    (src/src/lib/game/ScoreManager.ts, to line 380)     *)
(*                                                                         *)
(* Real numbers are fixed-point integers: a length, a speed, a time or an  *)
(* angle x is held as the integer x * SCALE.                               *)
(***************************************************************************)
EXTENDS Integers, Sequences, FiniteSets, TLC

VARIABLES
  \* ---- GameEngine ----
  gameState,      \* GameEngine.gameState
  stats,          \* GameEngine.stats (lives, combo, timeElapsed)
  animationId,    \* GameEngine.animationId (0 is null)
  frameQueue,     \* the window's pending requestAnimationFrame callbacks of gameLoop
  nextFrameId,    \* the handle the next requestAnimationFrame call returns
  updateCount,    \* number of updateGame calls made so far
  notified,       \* the states the last handler passed to onStateChange, in order
  listeners,      \* the event types for which the window holds a handler of the engine
  disposed,       \* dispose has been called
  held,           \* the keys that are physically down
  lastOp,         \* the handler that ran last: its key code, the state it ran in
  \* ---- CarController ----
  keys,           \* CarController.keys: the codes whose entry is true
  car,            \* CarController.car is set (initialize has run)
  speed,          \* CarController.speed
  rotation,       \* CarController.rotation
  position,       \* CarController.position (x, z)
  settings,       \* CarController.settings
  moves,          \* number of update and handleCollision calls made on the car
  lastDelta,      \* the deltaTime of the last update call
  heldTime,       \* the deltaTimes added up since the car stood with the key held
  \* ---- CollisionDetector ----
  carBoundingBox, \* the carBoundingBox argument of checkCollisions
  obstacleData,   \* the obstacles argument: mesh box, boundingBox, isActive
  far,            \* CollisionDetector.raycaster.far
  result,         \* the CollisionResult of the last checkCollisions call
  \* ---- ObstacleManager ----
  scene,          \* ObstacleManager.scene is set
  obstaclePool,   \* ObstacleManager.obstaclePool: per type, which meshes are visible
  poolId,         \* which createObstaclePool call made the pool (0: none yet)
  obstacles,      \* ObstacleManager.obstacles
  lastSpawnZ,     \* ObstacleManager.lastSpawnZ
  difficulty,     \* ObstacleManager.difficulty
  timeSinceStart, \* ObstacleManager.timeSinceStart
  rng,            \* the state of Math.random
  calls,          \* number of calls made on the obstacle manager
  spawnLog,       \* the patterns that the last call on the manager spawned
  lastCarZ,       \* carPosition.z of the last update call
  elapsed,        \* the deltaTimes of update added up since initialize or reset
  \* ---- ScoreManager ----
  score,          \* ScoreManager.score, in points
  highScore,      \* ScoreManager.highScore, in points
  distanceTravelled, \* ScoreManager.distance
  lives,          \* ScoreManager.lives
  combo,          \* ScoreManager.combo
  maxCombo,       \* ScoreManager.maxCombo
  timeSurvived,   \* ScoreManager.timeSurvived
  comboTimer,     \* ScoreManager.comboTimer
  lastObstacleAvoidanceTime, \* ScoreManager.lastObstacleAvoidanceTime
  now,            \* Date.now() / 1000
  storage,        \* localStorage's item 'car-racing-high-score' (<<>> is none)
  returned,       \* what the last call on the score manager returned
  scoreCalls,     \* number of calls made on the score manager
  \* ---- HomePage ----
  homeGameState,  \* HomePage's gameState
  gameStats,      \* HomePage's gameStats
  sound,          \* HomePage's settings.sound
  savedHighScore  \* localStorage's item 'carRacing3D_highScore' (0 is none)

engineVars ==
  <<gameState, stats, animationId, frameQueue, nextFrameId, updateCount, notified,
    listeners, disposed, held>>
carVars == <<keys, car, speed, rotation, position, settings>>
carBody == <<car, speed, rotation, position, settings, moves, lastDelta, heldTime>>
collisionVars == <<carBoundingBox, obstacleData, far, result>>
managerVars ==
  <<scene, obstaclePool, poolId, obstacles, lastSpawnZ, difficulty,
    timeSinceStart, rng, calls, spawnLog, lastCarZ, elapsed>>
scoreFields ==
  <<score, highScore, distanceTravelled, lives, combo, maxCombo, timeSurvived,
    comboTimer, lastObstacleAvoidanceTime, storage>>
scoreVars == <<scoreFields, now, returned, scoreCalls>>
pageVars == <<homeGameState, gameStats, sound, savedHighScore>>
vars ==
  <<engineVars, lastOp, carVars, moves, lastDelta, heldTime, collisionVars, managerVars,
    scoreVars, pageVars>>

\* Two decimal digits are kept.
SCALE == 10 ^ 2

\* a / b rounded toward zero
Quot(a, b) == IF a >= 0 THEN a \div b ELSE -((-a) \div b)

\* The product of two fixed-point numbers.
Mul(a, b) == Quot(a * b, SCALE)

Min(a, b) == IF a <= b THEN a ELSE b
Max(a, b) == IF a >= b THEN a ELSE b
Abs(a) == IF a >= 0 THEN a ELSE -a

\* MathUtils.clamp
Clamp(value, lo, hi) == Min(Max(value, lo), hi)

(***************************************************************************)
(* GameEngine                                                              *)
(***************************************************************************)
MENU == "menu"
PLAYING == "playing"
PAUSED == "paused"
GAME_OVER == "game_over"
SETTINGS == "settings"
GameState == {MENU, PLAYING, PAUSED, GAME_OVER, SETTINGS}

\* Frame handles are handed out up to this one; it bounds the length of a run.
MaxFrameId == 6

InitialLives == 3

\* The engine's fields as one value, so that a handler is a function of it.
Engine ==
  [gameState |-> gameState, stats |-> stats, animationId |-> animationId,
   frameQueue |-> frameQueue, nextFrameId |-> nextFrameId,
   updateCount |-> updateCount, notified |-> <<>>, keys |-> keys,
   listeners |-> listeners, disposed |-> disposed, held |-> held]

SetEngine(e) ==
  /\ gameState' = e.gameState
  /\ stats' = e.stats
  /\ animationId' = e.animationId
  /\ frameQueue' = e.frameQueue
  /\ nextFrameId' = e.nextFrameId
  /\ updateCount' = e.updateCount
  /\ notified' = e.notified
  /\ keys' = e.keys
  /\ listeners' = e.listeners
  /\ disposed' = e.disposed
  /\ held' = e.held

\* window.requestAnimationFrame(() => this.gameLoop()), assigned to animationId
RequestAnimationFrame(e) ==
  [e EXCEPT !.animationId = e.nextFrameId,
            !.frameQueue = Append(e.frameQueue, e.nextFrameId),
            !.nextFrameId = e.nextFrameId + 1]

\* window.cancelAnimationFrame(id)
CancelAnimationFrame(e, id) ==
  [e EXCEPT !.frameQueue = SelectSeq(e.frameQueue, LAMBDA f : f # id)]

ResetGameStats(e) ==
  [e EXCEPT !.stats = [lives |-> InitialLives, combo |-> 0, timeElapsed |-> 0]]

\* carController.reset() as far as the engine reads it: the key map is cleared
CarReset(e) == [e EXCEPT !.keys = {}]

\* this.gameState = s, followed in every handler by onStateChange(s)
SetGameState(e, s) ==
  [e EXCEPT !.gameState = s, !.notified = Append(e.notified, s)]

EndGame(e) ==
  LET e1 == IF e.animationId # 0
              THEN [CancelAnimationFrame(e, e.animationId) EXCEPT !.animationId = 0]
              ELSE e
  IN  SetGameState(e1, GAME_OVER)

HandleCollision(e) ==
  [e EXCEPT !.stats.lives = e.stats.lives - 1, !.stats.combo = 0]

\* hit: the collision test of this update found an obstacle
UpdateGame(e, hit) ==
  LET e1 == [e EXCEPT !.stats.timeElapsed = e.stats.timeElapsed + 1,
                      !.updateCount = e.updateCount + 1]
      e2 == IF hit THEN HandleCollision(e1) ELSE e1
  IN  IF e2.stats.lives <= 0 THEN EndGame(e2) ELSE e2

\* gameLoop without its state test
GameLoopUnguarded(e, hit) == RequestAnimationFrame(UpdateGame(e, hit))

GameLoop(e, hit) ==
  IF e.gameState # PLAYING
    THEN e
    ELSE RequestAnimationFrame(UpdateGame(e, hit))

StartGame(e, hit) ==
  GameLoop(CarReset(SetGameState(ResetGameStats(e), PLAYING)), hit)

\* pauseGame without its state test
PauseGameUnguarded(e) == SetGameState(e, PAUSED)

PauseGame(e) ==
  IF e.gameState = PLAYING THEN SetGameState(e, PAUSED) ELSE e

ResumeGame(e, hit) ==
  IF e.gameState = PAUSED
    THEN GameLoop(SetGameState(e, PLAYING), hit)
    ELSE e

ResetGame(e) ==
  SetGameState(CarReset(ResetGameStats(e)), MENU)

KeyCodes == {"ArrowUp", "Escape"}

HandleKeyDown(e, code, hit) ==
  IF e.gameState = PLAYING
    THEN LET e1 == [e EXCEPT !.keys = e.keys \cup {code}]
         IN  IF code = "Escape" THEN PauseGame(e1) ELSE e1
    ELSE IF e.gameState = PAUSED /\ code = "Escape"
           THEN ResumeGame(e, hit)
           ELSE e

HandleKeyUp(e, code) ==
  IF e.gameState = PLAYING THEN [e EXCEPT !.keys = e.keys \ {code}] ELSE e

HandleWindowBlur(e) ==
  IF e.gameState = PLAYING THEN PauseGame(e) ELSE e

\* setupEventListeners: a handler is added for each of these
EventTypes == {"resize", "keydown", "keyup", "blur", "focus"}

\* handleResize sets the camera and the renderer, handleWindowFocus is empty.
HandleResize(e) == e
HandleWindowFocus(e) == e

\* dispose: the frame of animationId is cancelled; carController.dispose is
\* no function of CarController, so the call throws and the lines after it,
\* the removeEventListener calls among them, are not reached.
Dispose(e) ==
  LET e1 == IF e.animationId # 0 THEN CancelAnimationFrame(e, e.animationId) ELSE e
  IN  [e1 EXCEPT !.disposed = TRUE]

\* A handler's result is taken only while frame handles remain.
Within(e) == e.nextFrameId <= MaxFrameId + 1

Op(name) == [op |-> name, code |-> "", from |-> gameState]

EngineStep(e, op) ==
  /\ Within(e)
  /\ SetEngine(e)
  /\ lastOp' = op
  /\ UNCHANGED <<carBody, collisionVars, managerVars, scoreVars, pageVars>>

\* The engine's owner calls its methods until it disposes of it.
DoStartGame ==
  /\ ~disposed
  /\ \E hit \in BOOLEAN : EngineStep(StartGame(Engine, hit), Op("startGame"))
DoPauseGame == ~disposed /\ EngineStep(PauseGame(Engine), Op("pauseGame"))
DoResumeGame ==
  /\ ~disposed
  /\ \E hit \in BOOLEAN : EngineStep(ResumeGame(Engine, hit), Op("resumeGame"))
DoResetGame == ~disposed /\ EngineStep(ResetGame(Engine), Op("resetGame"))
DoDispose == ~disposed /\ EngineStep(Dispose(Engine), Op("dispose"))

\* The window's events reach the handlers that it holds.  A key goes down,
\* or repeats while it is down, and a key that is down goes up.
DoKeyDown ==
  /\ "keydown" \in listeners
  /\ \E code \in KeyCodes, hit \in BOOLEAN :
       EngineStep(HandleKeyDown([Engine EXCEPT !.held = held \cup {code}], code, hit),
                  [op |-> "keydown", code |-> code, from |-> gameState])
DoKeyUp ==
  /\ "keyup" \in listeners
  /\ \E code \in held :
       EngineStep(HandleKeyUp([Engine EXCEPT !.held = held \ {code}], code),
                  [op |-> "keyup", code |-> code, from |-> gameState])
DoWindowBlur ==
  "blur" \in listeners /\ EngineStep(HandleWindowBlur(Engine), Op("blur"))
DoWindowFocus ==
  "focus" \in listeners /\ EngineStep(HandleWindowFocus(Engine), Op("focus"))
DoResize ==
  "resize" \in listeners /\ EngineStep(HandleResize(Engine), Op("resize"))

\* The display refresh runs the oldest pending callback.
FrameCallback ==
  /\ frameQueue # <<>>
  /\ \E hit \in BOOLEAN :
       EngineStep(GameLoop([Engine EXCEPT !.frameQueue = Tail(frameQueue)], hit),
                  Op("frame"))

EngineInit ==
  /\ gameState = MENU
  /\ stats = [lives |-> InitialLives, combo |-> 0, timeElapsed |-> 0]
  /\ animationId = 0
  /\ frameQueue = <<>>
  /\ nextFrameId = 1
  /\ updateCount = 0
  /\ notified = <<>>
  /\ listeners = EventTypes
  /\ disposed = FALSE
  /\ held = {}
  /\ lastOp = Op("init")

CarIdle ==
  /\ keys = {}
  /\ car = FALSE
  /\ speed = 0
  /\ rotation = 0
  /\ position = [x |-> 0, z |-> 0]
  /\ settings = [sensitivity |-> SCALE, invertSteering |-> FALSE]
  /\ moves = 0
  /\ lastDelta = 0
  /\ heldTime = 0

\* raycaster.far of a new Raycaster: Infinity
Infinity == 10 ^ 6

NoCollision == [hasCollision |-> FALSE, obstacle |-> 0]

CollisionIdle ==
  /\ carBoundingBox = [minX |-> 0, maxX |-> 0, minZ |-> 0, maxZ |-> 0]
  /\ obstacleData = <<>>
  /\ far = Infinity
  /\ result = NoCollision

poolSize == 20
ObstacleTypes == {"barrier", "wall", "cone"}
firstSpawnZ == 50

\* The obstacle manager as its constructor leaves it.
ManagerIdle ==
  /\ scene = FALSE
  /\ obstaclePool = [type \in ObstacleTypes |-> [i \in 1..poolSize |-> FALSE]]
  /\ poolId = 0
  /\ obstacles = <<>>
  /\ lastSpawnZ = firstSpawnZ * SCALE
  /\ difficulty = SCALE
  /\ timeSinceStart = 0
  /\ rng = 0
  /\ calls = 0
  /\ spawnLog = <<>>
  /\ lastCarZ = 0
  /\ elapsed = 0

maxLives == 3

\* Date.now() / 1000 when the page is opened: some time long after 1970.
Epoch == 1000 * SCALE

\* The score manager as its constructor leaves it, and nothing stored.
ScoreIdle ==
  /\ score = 0
  /\ highScore = 0
  /\ distanceTravelled = 0
  /\ lives = maxLives
  /\ combo = 0
  /\ maxCombo = 0
  /\ timeSurvived = 0
  /\ comboTimer = 0
  /\ lastObstacleAvoidanceTime = 0
  /\ now = Epoch
  /\ storage = <<>>
  /\ returned = 0
  /\ scoreCalls = 0

\* HomePage as it first renders, with no high score saved.
PageIdle ==
  /\ homeGameState = "menu"
  /\ gameStats = [score |-> 0, health |-> 100, highScore |-> 0]
  /\ sound = TRUE
  /\ savedHighScore = 0

Init ==
  EngineInit /\ CarIdle /\ CollisionIdle /\ ManagerIdle /\ ScoreIdle /\ PageIdle

Next ==
  \/ DoStartGame
  \/ DoPauseGame
  \/ DoResumeGame
  \/ DoResetGame
  \/ DoKeyDown
  \/ DoKeyUp
  \/ DoWindowBlur
  \/ DoWindowFocus
  \/ DoResize
  \/ DoDispose
  \/ FrameCallback

Spec == Init /\ [][Next]_vars

(***************************************************************************)
(* CarController                                                           *)
(***************************************************************************)
maxSpeed == 25
acceleration == 15
deceleration == 10
turnSpeed == (5 * SCALE) \div 2
roadHalfWidth == 8

\* pi, and the sine by Bhaskara's formula, exact to the digits kept
PI == (314159 * SCALE) \div 100000

SinHalfTurn(a) ==
  (16 * a * (PI - a) * SCALE) \div (5 * PI * PI - 4 * a * (PI - a))

Sin(a) ==
  LET r == a % (2 * PI)
  IN  IF r <= PI THEN SinHalfTurn(r) ELSE -SinHalfTurn(r - PI)

Cos(a) == Sin(a + PI \div 2)

\* The tick lengths handed to update, in seconds.
DeltaTimes == {0, SCALE}

\* The car is followed through this many update and handleCollision calls.
MaxMoves == 4

CarCodes == {"ArrowUp", "ArrowDown", "ArrowLeft", "ArrowRight"}

ControlSettings == {[sensitivity |-> SCALE, invertSteering |-> FALSE]}

\* The controller's fields as one value.
Car ==
  [keys |-> keys, car |-> car, speed |-> speed, rotation |-> rotation,
   position |-> position, settings |-> settings]

SetCar(c) ==
  /\ keys' = c.keys
  /\ car' = c.car
  /\ speed' = c.speed
  /\ rotation' = c.rotation
  /\ position' = c.position
  /\ settings' = c.settings

Pressed(c, a, b) == a \in c.keys \/ b \in c.keys

CarInitialize(c, controlSettings) ==
  [c EXCEPT !.car = TRUE, !.settings = controlSettings,
            !.position = [x |-> 0, z |-> 0]]

\* handleInput's speed without the cap at maxSpeed
InputSpeedUncapped(c, deltaTime) ==
  IF Pressed(c, "ArrowUp", "KeyW")
    THEN c.speed + Mul(acceleration * SCALE, deltaTime)
    ELSE IF Pressed(c, "ArrowDown", "KeyS")
      THEN Max(c.speed - Mul(deceleration * SCALE, deltaTime),
               -((maxSpeed * SCALE) \div 2))
      ELSE IF c.speed > 0
        THEN Max(c.speed - Mul((deceleration * SCALE) \div 2, deltaTime), 0)
        ELSE IF c.speed < 0
          THEN Min(c.speed + Mul((deceleration * SCALE) \div 2, deltaTime), 0)
          ELSE c.speed

\* handleInput's speed with a natural deceleration that does not stop at 0
InputSpeedOvershoot(c, deltaTime) ==
  IF Pressed(c, "ArrowUp", "KeyW")
    THEN Min(c.speed + Mul(acceleration * SCALE, deltaTime), maxSpeed * SCALE)
    ELSE IF Pressed(c, "ArrowDown", "KeyS")
      THEN Max(c.speed - Mul(deceleration * SCALE, deltaTime),
               -((maxSpeed * SCALE) \div 2))
      ELSE IF c.speed > 0
        THEN c.speed - Mul((deceleration * SCALE) \div 2, deltaTime)
        ELSE IF c.speed < 0
          THEN c.speed + Mul((deceleration * SCALE) \div 2, deltaTime)
          ELSE c.speed

\* handleInput's speed with the acceleration of one sixtieth of a second
\* added in every tick, whatever its length
InputSpeedPerFrame(c, deltaTime) ==
  IF Pressed(c, "ArrowUp", "KeyW")
    THEN Min(c.speed + (acceleration * SCALE) \div 60, maxSpeed * SCALE)
    ELSE IF Pressed(c, "ArrowDown", "KeyS")
      THEN Max(c.speed - Mul(deceleration * SCALE, deltaTime),
               -((maxSpeed * SCALE) \div 2))
      ELSE IF c.speed > 0
        THEN Max(c.speed - Mul((deceleration * SCALE) \div 2, deltaTime), 0)
        ELSE IF c.speed < 0
          THEN Min(c.speed + Mul((deceleration * SCALE) \div 2, deltaTime), 0)
          ELSE c.speed

\* The speed that handleInput leaves.
InputSpeed(c, deltaTime) ==
  IF Pressed(c, "ArrowUp", "KeyW")
    THEN Min(c.speed + Mul(acceleration * SCALE, deltaTime), maxSpeed * SCALE)
    ELSE IF Pressed(c, "ArrowDown", "KeyS")
      THEN Max(c.speed - Mul(deceleration * SCALE, deltaTime),
               -((maxSpeed * SCALE) \div 2))
      ELSE IF c.speed > 0
        THEN Max(c.speed - Mul((deceleration * SCALE) \div 2, deltaTime), 0)
        ELSE IF c.speed < 0
          THEN Min(c.speed + Mul((deceleration * SCALE) \div 2, deltaTime), 0)
          ELSE c.speed

FinalSteering(c) ==
  LET inputSteering ==
        (IF Pressed(c, "ArrowLeft", "KeyA") THEN -1 ELSE 0)
        + (IF Pressed(c, "ArrowRight", "KeyD") THEN 1 ELSE 0)
      adjustedSteering == inputSteering * c.settings.sensitivity
  IN  IF c.settings.invertSteering THEN -adjustedSteering ELSE adjustedSteering

HandleInput(c, deltaTime) ==
  LET c1 == [c EXCEPT !.speed = InputSpeed(c, deltaTime)]
      finalSteering == FinalSteering(c)
  IN  IF Abs(c1.speed) * 10 > SCALE /\ Abs(finalSteering) * 10 > SCALE
        THEN LET steeringEffect == Mul(Mul(finalSteering, turnSpeed), deltaTime)
                 speedFactor == Quot(Abs(c1.speed) * SCALE, maxSpeed * SCALE)
             IN  [c1 EXCEPT !.rotation = c1.rotation + Mul(steeringEffect, speedFactor)]
        ELSE c1

\* updatePhysics without the clamp of the lateral position
UpdatePhysicsUnclamped(c, deltaTime) ==
  LET velocity == [x |-> Mul(-Sin(c.rotation), c.speed),
                   z |-> Mul(-Cos(c.rotation), c.speed)]
  IN  [c EXCEPT !.position = [x |-> c.position.x + Mul(velocity.x, deltaTime),
                              z |-> c.position.z + Mul(velocity.z, deltaTime)]]

UpdatePhysics(c, deltaTime) ==
  LET velocity == [x |-> Mul(-Sin(c.rotation), c.speed),
                   z |-> Mul(-Cos(c.rotation), c.speed)]
      x == c.position.x + Mul(velocity.x, deltaTime)
      z == c.position.z + Mul(velocity.z, deltaTime)
  IN  [c EXCEPT !.position =
         [x |-> Clamp(x, -roadHalfWidth * SCALE, roadHalfWidth * SCALE), z |-> z]]

CarUpdate(c, deltaTime) ==
  IF ~c.car THEN c ELSE UpdatePhysics(HandleInput(c, deltaTime), deltaTime)

CarHandleKeyDown(c, code) == [c EXCEPT !.keys = c.keys \cup {code}]

CarHandleKeyUp(c, code) == [c EXCEPT !.keys = c.keys \ {code}]

CarHandleCollision(c) ==
  LET x == c.position.x + Mul(Sin(c.rotation), 2 * SCALE)
      z == c.position.z + Mul(Cos(c.rotation), 2 * SCALE)
  IN  [c EXCEPT !.speed = Quot(c.speed * 3, 10),
                !.position =
                  [x |-> Clamp(x, -roadHalfWidth * SCALE, roadHalfWidth * SCALE),
                   z |-> z]]

Reset(c) ==
  [c EXCEPT !.position = [x |-> 0, z |-> 0], !.rotation = 0, !.speed = 0,
            !.keys = {}]

CarStep(c, op) ==
  /\ SetCar(c)
  /\ lastOp' = Op(op)
  /\ UNCHANGED <<engineVars, collisionVars, managerVars, scoreVars, pageVars>>

Move ==
  /\ moves < MaxMoves
  /\ moves' = moves + 1

DoCarInitialize ==
  /\ ~car
  /\ \E cs \in ControlSettings : CarStep(CarInitialize(Car, cs), "initialize")
  /\ UNCHANGED <<moves, lastDelta, heldTime>>

DoCarUpdate ==
  \E dt \in DeltaTimes :
    /\ CarStep(CarUpdate(Car, dt), "update")
    /\ lastDelta' = dt /\ heldTime' = heldTime
    /\ Move

DoCarKeyDown ==
  /\ \E code \in CarCodes : CarStep(CarHandleKeyDown(Car, code), "keydown")
  /\ UNCHANGED <<moves, lastDelta, heldTime>>

DoCarKeyUp ==
  /\ \E code \in CarCodes : CarStep(CarHandleKeyUp(Car, code), "keyup")
  /\ UNCHANGED <<moves, lastDelta, heldTime>>

DoCarCollision ==
  /\ CarStep(CarHandleCollision(Car), "handleCollision")
  /\ UNCHANGED <<lastDelta, heldTime>>
  /\ Move

DoCarReset ==
  /\ CarStep(Reset(Car), "reset")
  /\ UNCHANGED <<moves, lastDelta, heldTime>>

CarNext ==
  \/ DoCarInitialize
  \/ DoCarUpdate
  \/ DoCarKeyDown
  \/ DoCarKeyUp
  \/ DoCarCollision
  \/ DoCarReset

SpecCar == Init /\ [][CarNext]_vars

(***************************************************************************)
(* A car left to coast: it rolls at some speed, the accelerate and brake   *)
(* keys stay up, steering keys may go down and up, and ticks keep coming.  *)
(***************************************************************************)
CoastSpeeds ==
  {-((maxSpeed * SCALE) \div 2), -7 * SCALE, -(SCALE \div 20), 0,
   3 * SCALE, 15 * SCALE, maxSpeed * SCALE}

CoastDeltas == {0, SCALE, 2 * SCALE}

SteeringCodes == {"ArrowLeft", "ArrowRight"}

CoastInit ==
  /\ EngineInit
  /\ keys = {}
  /\ car = TRUE
  /\ speed \in CoastSpeeds
  /\ rotation = 0
  /\ position = [x |-> 0, z |-> 0]
  /\ settings = [sensitivity |-> SCALE, invertSteering |-> FALSE]
  /\ moves = 0
  /\ lastDelta = 0
  /\ heldTime = 0
  /\ CollisionIdle
  /\ ManagerIdle
  /\ ScoreIdle
  /\ PageIdle

CoastTick(dt) ==
  /\ CarStep(CarUpdate(Car, dt), "update")
  /\ lastDelta' = dt /\ heldTime' = heldTime
  /\ UNCHANGED moves

DoCoastUpdate == \E dt \in CoastDeltas : CoastTick(dt)

DoCoastPositiveUpdate == \E dt \in CoastDeltas \ {0} : CoastTick(dt)

DoSteerKeyDown ==
  /\ \E code \in SteeringCodes : CarStep(CarHandleKeyDown(Car, code), "keydown")
  /\ UNCHANGED <<moves, lastDelta, heldTime>>

DoSteerKeyUp ==
  /\ \E code \in SteeringCodes : CarStep(CarHandleKeyUp(Car, code), "keyup")
  /\ UNCHANGED <<moves, lastDelta, heldTime>>

CoastNext ==
  \/ DoCoastUpdate
  \/ DoSteerKeyDown
  \/ DoSteerKeyUp

\* The frame loop keeps handing ticks of positive length to the car.  Such a
\* tick is possible in every state, so weak fairness of it comes to this.
SpecCoast ==
  CoastInit /\ [][CoastNext]_vars /\ []<><<DoCoastPositiveUpdate>>_vars

(***************************************************************************)
(* A car that pulls away: it stands, the accelerate key is down and stays  *)
(* down, no other key is touched, and ticks of several lengths come.       *)
(***************************************************************************)
AccelDeltas == {SCALE \div 10, SCALE \div 4, SCALE}

\* The car is followed for this long, in hundredths of a second.
HeldLimit == 250

AccelInit ==
  /\ EngineInit
  /\ keys \in {{"ArrowUp"}, {"KeyW"}}
  /\ car = TRUE
  /\ speed = 0
  /\ rotation = 0
  /\ position = [x |-> 0, z |-> 0]
  /\ settings = [sensitivity |-> SCALE, invertSteering |-> FALSE]
  /\ moves = 0
  /\ lastDelta = 0
  /\ heldTime = 0
  /\ CollisionIdle
  /\ ManagerIdle
  /\ ScoreIdle
  /\ PageIdle

DoAccelUpdate ==
  \E dt \in AccelDeltas :
    /\ heldTime + dt <= HeldLimit
    /\ SetCar(CarUpdate(Car, dt))
    /\ lastOp' = Op("update")
    /\ lastDelta' = dt
    /\ heldTime' = heldTime + dt
    /\ UNCHANGED <<moves, engineVars, collisionVars, managerVars, scoreVars, pageVars>>

AccelNext == DoAccelUpdate

SpecAccel == AccelInit /\ [][AccelNext]_vars

(***************************************************************************)
(* CollisionDetector.  Boxes are axis-aligned, seen from above (x, z); the *)
(* car's centre is level with the obstacles.  An obstacle's mesh is a box  *)
(* (the barrier and the wall of ThreeUtils.createObstacleGeometry) whose   *)
(* material shows its front side only, the default of THREE.Material.      *)
(***************************************************************************)
Box(minX, maxX, minZ, maxZ) ==
  [minX |-> minX, maxX |-> maxX, minZ |-> minZ, maxZ |-> maxZ]

CarBoxes == {Box(2, 4, 2, 4), Box(0, 4, 0, 8), Box(4, 6, 4, 6)}

ObstacleBoxes ==
  {Box(0, 8, 0, 8), Box(4, 6, 2, 4), Box(6, 8, 6, 8), Box(4, 8, 4, 8)}

\* The lengths of the paths that isPathClear is asked about.
PathLengths == {1, 4, 20}

ObstacleRecords ==
  [mesh : ObstacleBoxes, boundingBox : ObstacleBoxes, isActive : BOOLEAN]

\* Box3.getCenter, Box3.getSize
GetCenter(b) == [x |-> (b.minX + b.maxX) \div 2, z |-> (b.minZ + b.maxZ) \div 2]
GetSize(b) == [x |-> b.maxX - b.minX, z |-> b.maxZ - b.minZ]

\* Box3.intersectsBox: boxes that only touch do intersect
IntersectsBox(a, b) ==
  ~ (\/ b.maxX < a.minX
     \/ b.minX > a.maxX
     \/ b.maxZ < a.minZ
     \/ b.minZ > a.maxZ)

\* Box3.containsBox
ContainsBox(a, b) ==
  /\ a.minX <= b.minX /\ b.maxX <= a.maxX
  /\ a.minZ <= b.minZ /\ b.maxZ <= a.maxZ

\* Box3.setFromObject(obstacle.mesh)
SetFromObject(o) == [o EXCEPT !.boundingBox = o.mesh]

Directions == {"right", "left", "forward", "backward", "up", "down"}

NoHit == -1

\* Raycaster.intersectObject on a box mesh: the distance from the origin to
\* the face the ray enters by, or NoHit.  A face seen from behind is culled,
\* so a ray that starts inside the box hits nothing; a vertical ray starts
\* inside the box or beside it.
IntersectObject(origin, direction, mesh) ==
  CASE direction = "right" ->
         IF origin.z >= mesh.minZ /\ origin.z <= mesh.maxZ /\ mesh.minX >= origin.x
           THEN mesh.minX - origin.x ELSE NoHit
    [] direction = "left" ->
         IF origin.z >= mesh.minZ /\ origin.z <= mesh.maxZ /\ mesh.maxX <= origin.x
           THEN origin.x - mesh.maxX ELSE NoHit
    [] direction = "forward" ->
         IF origin.x >= mesh.minX /\ origin.x <= mesh.maxX /\ mesh.minZ >= origin.z
           THEN mesh.minZ - origin.z ELSE NoHit
    [] direction = "backward" ->
         IF origin.x >= mesh.minX /\ origin.x <= mesh.maxX /\ mesh.maxZ <= origin.z
           THEN origin.z - mesh.maxZ ELSE NoHit
    [] OTHER -> NoHit

\* detailedCollisionCheck: some ray from the car's centre meets the mesh no
\* farther than raycaster.far and than 0.6 times the car's largest dimension.
DetailedCollisionCheck(box, o, rayFar) ==
  LET carCenter == GetCenter(box)
      carSize == GetSize(box)
  IN  \E direction \in Directions :
        LET distance == IntersectObject(carCenter, direction, o.mesh)
        IN  /\ distance # NoHit
            /\ distance <= rayFar
            /\ 10 * distance <= 6 * Max(carSize.x, carSize.z)

\* checkCollisions without the test of isActive
CheckCollisionsOfAll(box, obs, rayFar) ==
  LET Hit(i) ==
        /\ IntersectsBox(box, SetFromObject(obs[i]).boundingBox)
        /\ DetailedCollisionCheck(box, obs[i], rayFar)
      hits == {i \in 1..Len(obs) : Hit(i)}
      first == IF hits = {} THEN 0 ELSE CHOOSE i \in hits : \A j \in hits : i <= j
  IN  [result |-> [hasCollision |-> first # 0, obstacle |-> first],
       obstacles |->
         [i \in 1..Len(obs) |->
            IF first = 0 \/ i <= first THEN SetFromObject(obs[i]) ELSE obs[i]]]

\* checkCollisions: the first active obstacle whose refreshed bounding box
\* intersects the car's and that the detailed check finds; the obstacles
\* looked at keep their refreshed bounding boxes.
CheckCollisions(box, obs, rayFar) ==
  LET Hit(i) ==
        /\ obs[i].isActive
        /\ IntersectsBox(box, SetFromObject(obs[i]).boundingBox)
        /\ DetailedCollisionCheck(box, obs[i], rayFar)
      hits == {i \in 1..Len(obs) : Hit(i)}
      first == IF hits = {} THEN 0 ELSE CHOOSE i \in hits : \A j \in hits : i <= j
  IN  [result |-> [hasCollision |-> first # 0, obstacle |-> first],
       obstacles |->
         [i \in 1..Len(obs) |->
            IF obs[i].isActive /\ (first = 0 \/ i <= first)
              THEN SetFromObject(obs[i]) ELSE obs[i]]]

CollisionStep(op) ==
  /\ lastOp' = Op(op)
  /\ UNCHANGED <<engineVars, carVars, moves, lastDelta, heldTime, carBoundingBox, managerVars,
               scoreVars, pageVars>>

DoCheckCollisions ==
  /\ result' = CheckCollisions(carBoundingBox, obstacleData, far).result
  /\ obstacleData' = CheckCollisions(carBoundingBox, obstacleData, far).obstacles
  /\ far' = far
  /\ CollisionStep("checkCollisions")

\* isPathClear leaves the length of its path in raycaster.far.
DoIsPathClear ==
  /\ \E distance \in PathLengths : far' = distance
  /\ UNCHANGED <<obstacleData, result>>
  /\ CollisionStep("isPathClear")

CollisionInit ==
  /\ EngineInit
  /\ CarIdle
  /\ ManagerIdle
  /\ ScoreIdle
  /\ PageIdle
  /\ carBoundingBox \in CarBoxes
  /\ obstacleData \in [1..2 -> ObstacleRecords]
  /\ far = Infinity
  /\ result = NoCollision

CollisionNext ==
  \/ DoCheckCollisions
  \/ DoIsPathClear

SpecCollision == CollisionInit /\ [][CollisionNext]_vars

(***************************************************************************)
(* ObstacleManager.  Math.random is a stream of numbers in [0, 1) fixed by *)
(* its seed, and the seed is any.  The scale that spawnWallGap gives a     *)
(* wall's mesh is not kept.                                                *)
(***************************************************************************)
spawnDistance == 100
despawnDistance == -50
patternCount == 6

\* Math.random steps through RandMod values.
RandMod == 12
RandStride == 7
Seeds == 0..(RandMod - 1)

\* The car positions and tick lengths handed to update.
CarZs == {0, 130 * SCALE}
ObstacleDeltas == {0, SCALE, 30 * SCALE}

\* The obstacle manager is followed through this many calls.
MaxCalls == 4

\* The manager's fields as one value.
Manager ==
  [scene |-> scene, obstaclePool |-> obstaclePool, poolId |-> poolId,
   obstacles |-> obstacles, lastSpawnZ |-> lastSpawnZ, difficulty |-> difficulty,
   timeSinceStart |-> timeSinceStart, rng |-> rng, spawnLog |-> spawnLog,
   lastCarZ |-> lastCarZ, elapsed |-> elapsed]

SetManager(m) ==
  /\ scene' = m.scene
  /\ obstaclePool' = m.obstaclePool
  /\ poolId' = m.poolId
  /\ obstacles' = m.obstacles
  /\ lastSpawnZ' = m.lastSpawnZ
  /\ difficulty' = m.difficulty
  /\ timeSinceStart' = m.timeSinceStart
  /\ rng' = m.rng
  /\ spawnLog' = m.spawnLog
  /\ lastCarZ' = m.lastCarZ
  /\ elapsed' = m.elapsed

\* Math.random(): the number the next call returns, and the stream after it
MathRandom(m) == (m.rng * SCALE) \div RandMod
Drawn(m) == [m EXCEPT !.rng = (m.rng + RandStride) % RandMod]

\* MathUtils.random(min, max) on the next number of the stream
Random(m, min, max) == Mul(MathRandom(m), max - min) + min

CreateObstaclePool(m) ==
  [m EXCEPT !.obstaclePool =
              [type \in ObstacleTypes |-> [i \in 1..poolSize |-> FALSE]],
            !.poolId = m.poolId + 1]

\* The pooled meshes of a type that are not visible.
FreeMeshes(m, type) == {i \in 1..poolSize : ~m.obstaclePool[type][i]}

\* getObstacleFromPool: the first mesh that is not visible, 0 for null
GetObstacleFromPool(m, type) ==
  IF FreeMeshes(m, type) = {} THEN 0
  ELSE CHOOSE i \in FreeMeshes(m, type) : \A j \in FreeMeshes(m, type) : i <= j

\* returnObstacleToPool: the mesh is hidden; a mesh of an earlier pool is
\* no part of the pool in use
ReturnObstacleToPool(m, o) ==
  IF o.mesh.pool = m.poolId
    THEN [m EXCEPT !.obstaclePool[o.type][o.mesh.index] = FALSE]
    ELSE m

CreateObstacle(m, type, x, z) ==
  IF ~m.scene \/ GetObstacleFromPool(m, type) = 0 THEN m
  ELSE LET i == GetObstacleFromPool(m, type)
       IN  [m EXCEPT !.obstaclePool[type][i] = TRUE,
                     !.obstacles =
                       Append(@, [mesh |-> [pool |-> m.poolId, index |-> i],
                                  type |-> type,
                                  position |-> [x |-> x, z |-> z],
                                  speed |-> 0,
                                  direction |-> 0,
                                  isActive |-> TRUE])]

SpawnSingleBarrier(m, z) ==
  CreateObstacle(Drawn(m), "barrier", Random(m, -6 * SCALE, 6 * SCALE), z)

\* spawnDoubleBarrier with the second barrier a whole gap from the centre
SpawnDoubleBarrierWide(m, z) ==
  LET gap == Random(m, 4 * SCALE, 6 * SCALE)
      centerX == Random(Drawn(m), -3 * SCALE, 3 * SCALE)
      m1 == CreateObstacle(Drawn(Drawn(m)), "barrier", centerX - Quot(gap, 2), z)
  IN  CreateObstacle(m1, "barrier", centerX + gap, z)

SpawnDoubleBarrier(m, z) ==
  LET gap == Random(m, 4 * SCALE, 6 * SCALE)
      centerX == Random(Drawn(m), -3 * SCALE, 3 * SCALE)
      m1 == CreateObstacle(Drawn(Drawn(m)), "barrier", centerX - Quot(gap, 2), z)
  IN  CreateObstacle(m1, "barrier", centerX + Quot(gap, 2), z)

SpawnWallGap(m, z) ==
  LET gapCenter == Random(m, -4 * SCALE, 4 * SCALE)
      gapWidth == Random(Drawn(m), 3 * SCALE, 5 * SCALE)
      m0 == Drawn(Drawn(m))
      m1 == IF gapCenter - Quot(gapWidth, 2) > -8 * SCALE
              THEN CreateObstacle(m0, "wall",
                                  gapCenter - Quot(gapWidth, 2) - 4 * SCALE, z)
              ELSE m0
  IN  IF gapCenter + Quot(gapWidth, 2) < 8 * SCALE
        THEN CreateObstacle(m1, "wall", gapCenter + Quot(gapWidth, 2) + 4 * SCALE, z)
        ELSE m1

\* The loop of spawnConeSlalom from its i-th round on.  A round's cone is
\* placed, as n, before the rounds after it are worked out.
RECURSIVE ConeSlalomFrom(_, _, _, _)
ConeSlalomFrom(m, z, i, numCones) ==
  IF i < numCones
    THEN LET x == (IF i % 2 = 0 THEN -3 * SCALE ELSE 3 * SCALE)
                  + Random(m, -SCALE, SCALE)
             m1 == CreateObstacle(Drawn(m), "cone", x, z + i * 8 * SCALE)
         IN  CHOOSE r \in {ConeSlalomFrom(n, z, i + 1, numCones) : n \in {m1}} : TRUE
    ELSE m

SpawnConeSlalom(m, z) == ConeSlalomFrom(m, z, 0, 3 + m.difficulty \div SCALE)

SpawnNarrowPassage(m, z) ==
  LET passageWidth == Max(3 * SCALE, 5 * SCALE - m.difficulty)
      left == -Quot(passageWidth, 2) - SCALE
      right == Quot(passageWidth, 2) + SCALE
      m1 == CreateObstacle(m, "barrier", left, z)
      m2 == CreateObstacle(m1, "barrier", right, z)
      m3 == CreateObstacle(m2, "barrier", left, z + 5 * SCALE)
  IN  CreateObstacle(m3, "barrier", right, z + 5 * SCALE)

\* The obstacle at index i is given a speed and a direction.
SetInMotion(m, i, direction) ==
  [Drawn(m) EXCEPT !.obstacles[i].speed = Random(m, 2 * SCALE, 4 * SCALE),
                   !.obstacles[i].direction = direction]

SpawnMovingBarriers(m, z) ==
  LET m1 == CreateObstacle(m, "barrier", -4 * SCALE, z)
      leftBarrier == IF Len(m1.obstacles) > Len(m.obstacles)
                       THEN Len(m1.obstacles) ELSE 0
      m2 == CreateObstacle(m1, "barrier", 4 * SCALE, z)
      rightBarrier == IF Len(m2.obstacles) > Len(m1.obstacles)
                        THEN Len(m2.obstacles) ELSE 0
      m3 == IF leftBarrier # 0 THEN SetInMotion(m2, leftBarrier, 1) ELSE m2
  IN  IF rightBarrier # 0 THEN SetInMotion(m3, rightBarrier, -1) ELSE m3

\* What spawnLog keeps of a spawned pattern: its index and z, the number of
\* barrier meshes that were free, and the number of obstacles before and after.
Spawned(m, patternIndex, z, after) ==
  [pattern |-> patternIndex, z |-> z,
   freeBarriers |-> Cardinality(FreeMeshes(m, "barrier")),
   from |-> Len(m.obstacles), to |-> Len(after.obstacles)]

SpawnObstaclePattern(m, z) ==
  IF ~m.scene THEN m
  ELSE LET patternIndex == (MathRandom(m) * patternCount) \div SCALE
           m1 == Drawn(m)
           after == CASE patternIndex = 0 -> SpawnSingleBarrier(m1, z)
                      [] patternIndex = 1 -> SpawnDoubleBarrier(m1, z)
                      [] patternIndex = 2 -> SpawnWallGap(m1, z)
                      [] patternIndex = 3 -> SpawnConeSlalom(m1, z)
                      [] patternIndex = 4 -> SpawnNarrowPassage(m1, z)
                      [] OTHER -> SpawnMovingBarriers(m1, z)
       IN  [after EXCEPT !.spawnLog = Append(@, Spawned(m, patternIndex, z, after))]

\* The loop of spawnInitialObstacles from z on.  A round's pattern is
\* spawned, as n, before the rounds after it are worked out.
RECURSIVE InitialObstaclesFrom(_, _)
InitialObstaclesFrom(m, z) ==
  IF z < 100
    THEN CHOOSE r \in {InitialObstaclesFrom(n, z + 15) :
                        n \in {SpawnObstaclePattern(m, z * SCALE)}} : TRUE
    ELSE m

SpawnInitialObstacles(m) == InitialObstaclesFrom(m, 20)

ManagerInitialize(m) ==
  SpawnInitialObstacles(CreateObstaclePool([m EXCEPT !.scene = TRUE,
                                                     !.spawnLog = <<>>,
                                                     !.elapsed = 0]))

UpdateDifficulty(m) ==
  [m EXCEPT !.difficulty = Min(SCALE + m.timeSinceStart \div 30, 5 * SCALE)]

\* Whether cleanupObstacles removes the obstacle.
Behind(m, o, carZ) == o.position.z < carZ + despawnDistance * SCALE

\* The pool after returnObstacleToPool was called on each obstacle whose index
\* is in gone.
ReturnedAll(m, gone) ==
  [m EXCEPT !.obstaclePool =
     [type \in ObstacleTypes |->
        [i \in 1..poolSize |->
           /\ m.obstaclePool[type][i]
           /\ \A n \in gone :
                ReturnObstacleToPool(m, m.obstacles[n]).obstaclePool[type][i]]]]

\* cleanupObstacles that drops the obstacles behind the car and leaves their
\* meshes as they are
CleanupObstaclesKeepsMeshes(m, carZ) ==
  [m EXCEPT !.obstacles = SelectSeq(m.obstacles, LAMBDA o : ~Behind(m, o, carZ))]

CleanupObstacles(m, carZ) ==
  LET gone == {i \in 1..Len(m.obstacles) : Behind(m, m.obstacles[i], carZ)}
      m1 == ReturnedAll(m, gone)
  IN  [m1 EXCEPT !.obstacles = SelectSeq(m.obstacles, LAMBDA o : ~Behind(m, o, carZ))]

\* One round of the loop of spawnObstacles.
SpawnNext(m) ==
  LET step == Random(m, 10 * SCALE, Quot(20 * SCALE * SCALE, m.difficulty))
      m1 == [Drawn(m) EXCEPT !.lastSpawnZ = m.lastSpawnZ + step]
  IN  SpawnObstaclePattern(m1, m1.lastSpawnZ)

\* spawnObstacles with an if for the while
SpawnObstaclesOnce(m, carZ) ==
  IF m.lastSpawnZ < carZ + spawnDistance * SCALE THEN SpawnNext(m) ELSE m

RECURSIVE SpawnObstacles(_, _)
SpawnObstacles(m, carZ) ==
  IF m.lastSpawnZ < carZ + spawnDistance * SCALE
    THEN SpawnObstacles(SpawnNext(m), carZ)
    ELSE m

UpdateMovingObstacles(m, deltaTime) ==
  [m EXCEPT !.obstacles =
     [i \in 1..Len(m.obstacles) |->
        LET o == m.obstacles[i]
            x == o.position.x + o.direction * Mul(o.speed, deltaTime)
        IN  IF o.speed # 0 /\ o.direction # 0
              THEN [o EXCEPT !.position.x = x,
                             !.direction = IF x > 7 * SCALE \/ x < -7 * SCALE
                                             THEN -o.direction ELSE o.direction]
              ELSE o]]

ManagerUpdate(m, deltaTime, carZ) ==
  LET m1 == UpdateDifficulty([m EXCEPT !.timeSinceStart = @ + deltaTime,
                                       !.spawnLog = <<>>,
                                       !.lastCarZ = carZ,
                                       !.elapsed = @ + deltaTime])
  IN  UpdateMovingObstacles(SpawnObstacles(CleanupObstacles(m1, carZ), carZ), deltaTime)

\* reset that leaves the meshes of the obstacles it drops marked as in use.
ManagerResetKeepsMeshes(m) ==
  SpawnInitialObstacles([m EXCEPT !.obstacles = <<>>,
                                  !.lastSpawnZ = firstSpawnZ * SCALE,
                                  !.difficulty = SCALE,
                                  !.timeSinceStart = 0,
                                  !.spawnLog = <<>>,
                                  !.elapsed = 0])

ManagerReset(m) ==
  LET m1 == ReturnedAll(m, 1..Len(m.obstacles))
  IN  SpawnInitialObstacles([m1 EXCEPT !.obstacles = <<>>,
                                       !.lastSpawnZ = firstSpawnZ * SCALE,
                                       !.difficulty = SCALE,
                                       !.timeSinceStart = 0,
                                       !.spawnLog = <<>>,
                                       !.elapsed = 0])

ManagerStep(m, op) ==
  /\ calls < MaxCalls
  /\ calls' = calls + 1
  /\ SetManager(m)
  /\ lastOp' = Op(op)
  /\ UNCHANGED <<engineVars, carVars, moves, lastDelta, heldTime, collisionVars, scoreVars, pageVars>>

DoManagerInitialize == ManagerStep(ManagerInitialize(Manager), "initialize")

DoManagerUpdate ==
  \E deltaTime \in ObstacleDeltas, carZ \in CarZs :
    ManagerStep(ManagerUpdate(Manager, deltaTime, carZ), "update")

DoManagerReset == ManagerStep(ManagerReset(Manager), "reset")

ManagerInit ==
  /\ EngineInit
  /\ CarIdle
  /\ CollisionIdle
  /\ ScoreIdle
  /\ PageIdle
  /\ scene = FALSE
  /\ obstaclePool = [type \in ObstacleTypes |-> [i \in 1..poolSize |-> FALSE]]
  /\ poolId = 0
  /\ obstacles = <<>>
  /\ lastSpawnZ = firstSpawnZ * SCALE
  /\ difficulty = SCALE
  /\ timeSinceStart = 0
  /\ rng \in Seeds
  /\ calls = 0
  /\ spawnLog = <<>>
  /\ lastCarZ = 0
  /\ elapsed = 0

ManagerNext ==
  \/ DoManagerInitialize
  \/ DoManagerUpdate
  \/ DoManagerReset

SpecManager == ManagerInit /\ [][ManagerNext]_vars

(***************************************************************************)
(* A drive: the obstacle manager is initialized with the scene, the car    *)
(* stands at the start pose with the accelerate key down, and the ticks of *)
(* updateGame come: the car is updated, then the obstacle manager with the *)
(* car's new position.                                                     *)
(***************************************************************************)
DriveDeltas == {SCALE \div 2, SCALE}

\* updateGame's calls on the car and on the obstacle manager
DriveTick(dt) ==
  /\ calls < MaxCalls
  /\ scene
  /\ calls' = calls + 1
  /\ SetCar(CarUpdate(Car, dt))
  /\ SetManager(ManagerUpdate(Manager, dt, CarUpdate(Car, dt).position.z))
  /\ lastOp' = Op("updateGame")
  /\ lastDelta' = dt
  /\ heldTime' = heldTime + dt
  /\ UNCHANGED <<moves, engineVars, collisionVars, scoreVars, pageVars>>

DoDriveTick == \E dt \in DriveDeltas : DriveTick(dt)

DoDriveInitialize ==
  /\ ~scene
  /\ calls < MaxCalls
  /\ calls' = calls + 1
  /\ SetManager(ManagerInitialize(Manager))
  /\ lastOp' = Op("initialize")
  /\ UNCHANGED <<engineVars, carVars, moves, lastDelta, heldTime, collisionVars,
               scoreVars, pageVars>>

DriveInit ==
  /\ EngineInit
  /\ keys \in {{"ArrowUp"}, {"KeyW"}}
  /\ car = TRUE
  /\ speed = 0
  /\ rotation = 0
  /\ position = [x |-> 0, z |-> 0]
  /\ settings = [sensitivity |-> SCALE, invertSteering |-> FALSE]
  /\ moves = 0
  /\ lastDelta = 0
  /\ heldTime = 0
  /\ CollisionIdle
  /\ ScoreIdle
  /\ PageIdle
  /\ scene = FALSE
  /\ obstaclePool = [type \in ObstacleTypes |-> [i \in 1..poolSize |-> FALSE]]
  /\ poolId = 0
  /\ obstacles = <<>>
  /\ lastSpawnZ = firstSpawnZ * SCALE
  /\ difficulty = SCALE
  /\ timeSinceStart = 0
  /\ rng \in Seeds
  /\ calls = 0
  /\ spawnLog = <<>>
  /\ lastCarZ = 0
  /\ elapsed = 0

DriveNext ==
  \/ DoDriveInitialize
  \/ DoDriveTick

SpecDrive == DriveInit /\ [][DriveNext]_vars

(***************************************************************************)
(* ScoreManager.  The score, the lives and the combo are whole numbers;    *)
(* times, speeds and the distance are fixed-point.  gameStartTime and      *)
(* lastTime are written and never read, and are not kept.  The page runs   *)
(* in a browser, so window is defined.                                     *)
(***************************************************************************)
DISTANCE_MULTIPLIER == 10
SPEED_MULTIPLIER == 5
COMBO_MULTIPLIER == 50
TIME_MULTIPLIER == 2
OBSTACLE_AVOIDANCE_POINTS == 100
COMBO_TIMEOUT == 3

\* The score manager is followed through this many calls.
MaxScoreCalls == 4

\* The arguments of update, and the seconds that pass before an award.
ScoreDeltas == {SCALE \div 2, 50 * SCALE}
ScoreSpeeds == {0, 20 * SCALE}
AwardGaps == {2 * SCALE, 2 * SCALE + 1}
AwardArguments ==
  {<<type, SCALE>> : type \in {"barrier", "wall", "moving_barrier", "narrow_passage"}}
    \cup {<<"cone", 2 * SCALE>>}

\* What localStorage may hold when the page is opened.
StoredScores == {<<>>, <<2, 5, 0>>}

\* Math.floor of a fixed-point number
Floor(x) == x \div SCALE

\* Number.prototype.toString of a whole number that is not negative: its
\* decimal digits
RECURSIVE NumberToString(_)
NumberToString(n) ==
  IF n < 10 THEN <<n>> ELSE Append(NumberToString(n \div 10), n % 10)

\* parseInt(saved, 10) || 0 of a string of decimal digits
RECURSIVE ParseInt(_)
ParseInt(saved) ==
  IF saved = <<>> THEN 0
  ELSE 10 * ParseInt(SubSeq(saved, 1, Len(saved) - 1)) + saved[Len(saved)]

\* The score manager's fields as one value.
Score ==
  [score |-> score, highScore |-> highScore, distance |-> distanceTravelled,
   lives |-> lives, combo |-> combo, maxCombo |-> maxCombo,
   timeSurvived |-> timeSurvived, comboTimer |-> comboTimer,
   lastObstacleAvoidanceTime |-> lastObstacleAvoidanceTime, storage |-> storage]

SetScore(s) ==
  /\ score' = s.score
  /\ highScore' = s.highScore
  /\ distanceTravelled' = s.distance
  /\ lives' = s.lives
  /\ combo' = s.combo
  /\ maxCombo' = s.maxCombo
  /\ timeSurvived' = s.timeSurvived
  /\ comboTimer' = s.comboTimer
  /\ lastObstacleAvoidanceTime' = s.lastObstacleAvoidanceTime
  /\ storage' = s.storage

ResetCombo(s) ==
  IF s.combo > 0 THEN [s EXCEPT !.combo = 0, !.comboTimer = 0] ELSE s

ScoreUpdate(s, deltaTime, carSpeed) ==
  LET distanceDelta == Mul(Abs(carSpeed), deltaTime)
      speedBonus == Mul((carSpeed - 15 * SCALE) * SPEED_MULTIPLIER, deltaTime)
      timeBonus == TIME_MULTIPLIER * deltaTime
      s1 == [s EXCEPT !.timeSurvived = @ + deltaTime,
                      !.comboTimer = @ - deltaTime,
                      !.distance = @ + distanceDelta,
                      !.score = @ + Floor(distanceDelta * DISTANCE_MULTIPLIER)
                                  + (IF carSpeed > 15 * SCALE
                                       THEN Floor(speedBonus) ELSE 0)
                                  + Floor(timeBonus)]
  IN  IF s1.comboTimer <= 0 /\ s1.combo > 0 THEN ResetCombo(s1) ELSE s1

\* The factor the switch on obstacleType gives the points.
TypeBonus(obstacleType) ==
  CASE obstacleType = "wall" -> (3 * SCALE) \div 2
    [] obstacleType = "moving_barrier" -> 2 * SCALE
    [] obstacleType = "narrow_passage" -> (5 * SCALE) \div 2
    [] OTHER -> SCALE

\* awardObstacleAvoidance with a combo only for awards less than 2.0 seconds
\* apart.
AwardObstacleAvoidanceStrict(s, obstacleType, level, currentTime) ==
  LET base == Mul(Mul(OBSTACLE_AVOIDANCE_POINTS * SCALE, TypeBonus(obstacleType)),
                  level)
      inCombo == currentTime - s.lastObstacleAvoidanceTime < 2 * SCALE
      count == IF inCombo THEN s.combo + 1 ELSE 1
      points == IF inCombo THEN base + count * COMBO_MULTIPLIER * SCALE ELSE base
  IN  [s EXCEPT !.combo = count,
                !.comboTimer = COMBO_TIMEOUT * SCALE,
                !.maxCombo = Max(s.maxCombo, count),
                !.score = @ + Floor(points),
                !.lastObstacleAvoidanceTime = currentTime]

\* awardObstacleAvoidance, called when Date.now() / 1000 is currentTime
AwardObstacleAvoidance(s, obstacleType, level, currentTime) ==
  LET base == Mul(Mul(OBSTACLE_AVOIDANCE_POINTS * SCALE, TypeBonus(obstacleType)),
                  level)
      inCombo == currentTime - s.lastObstacleAvoidanceTime <= 2 * SCALE
      count == IF inCombo THEN s.combo + 1 ELSE 1
      points == IF inCombo THEN base + count * COMBO_MULTIPLIER * SCALE ELSE base
  IN  [s EXCEPT !.combo = count,
                !.comboTimer = COMBO_TIMEOUT * SCALE,
                !.maxCombo = Max(s.maxCombo, count),
                !.score = @ + Floor(points),
                !.lastObstacleAvoidanceTime = currentTime]

LoseLife(s) == ResetCombo([s EXCEPT !.lives = Max(0, s.lives - 1)])

GainLife(s) == IF s.lives < maxLives THEN [s EXCEPT !.lives = s.lives + 1] ELSE s

\* calculateFinalScore with the distance bonus taken from the part of the
\* distance beyond the last whole 1000 units.
CalculateFinalScoreRemainder(s) ==
  LET survivalBonus == Floor(s.timeSurvived * 50)
      distanceBonus == Floor(s.distance % (1000 * SCALE))
      comboBonus == s.maxCombo * 200
  IN  s.score + survivalBonus + distanceBonus + comboBonus

CalculateFinalScore(s) ==
  LET survivalBonus == Floor(s.timeSurvived * 50)
      distanceMilestones == s.distance \div (1000 * SCALE)
      distanceBonus == distanceMilestones * 1000
      comboBonus == s.maxCombo * 200
  IN  s.score + survivalBonus + distanceBonus + comboBonus

SaveHighScore(s) == [s EXCEPT !.storage = NumberToString(s.highScore)]

\* checkHighScore: the score manager after it, and what it returns
CheckHighScore(s) ==
  IF CalculateFinalScore(s) > s.highScore
    THEN SaveHighScore([s EXCEPT !.highScore = CalculateFinalScore(s)])
    ELSE s

IsHighScore(s) == CalculateFinalScore(s) > s.highScore

LoadHighScore(s) ==
  IF s.storage # <<>> THEN [s EXCEPT !.highScore = ParseInt(s.storage)] ELSE s

\* reset that clears the high score with the rest
ScoreResetAll(s) ==
  [s EXCEPT !.score = 0, !.highScore = 0, !.distance = 0, !.lives = maxLives,
            !.combo = 0, !.maxCombo = 0, !.timeSurvived = 0, !.comboTimer = 0,
            !.lastObstacleAvoidanceTime = 0]

ScoreReset(s) ==
  [s EXCEPT !.score = 0, !.distance = 0, !.lives = maxLives, !.combo = 0,
            !.maxCombo = 0, !.timeSurvived = 0, !.comboTimer = 0,
            !.lastObstacleAvoidanceTime = 0]

ScoreInitialize(s) == ScoreReset(LoadHighScore(s))

ScoreStep(s, value, op) ==
  /\ scoreCalls < MaxScoreCalls
  /\ scoreCalls' = scoreCalls + 1
  /\ SetScore(s)
  /\ returned' = value
  /\ lastOp' = Op(op)
  /\ UNCHANGED <<engineVars, carVars, moves, lastDelta, heldTime, collisionVars, managerVars,
               pageVars>>

DoScoreInitialize ==
  /\ ScoreStep(ScoreInitialize(Score), 0, "initialize")
  /\ UNCHANGED now

DoScoreUpdate ==
  /\ \E deltaTime \in ScoreDeltas, carSpeed \in ScoreSpeeds :
       ScoreStep(ScoreUpdate(Score, deltaTime, carSpeed), 0, "update")
  /\ UNCHANGED now

\* Some seconds after the call before it, an avoidance is awarded.
DoAwardObstacleAvoidance ==
  \E gap \in AwardGaps, arguments \in AwardArguments :
    /\ now' = now + gap
    /\ ScoreStep(AwardObstacleAvoidance(Score, arguments[1], arguments[2], now + gap),
                 0, "awardObstacleAvoidance")

DoLoseLife ==
  /\ ScoreStep(LoseLife(Score), LoseLife(Score).lives, "loseLife")
  /\ UNCHANGED now

DoGainLife ==
  /\ ScoreStep(GainLife(Score), 0, "gainLife")
  /\ UNCHANGED now

DoCalculateFinalScore ==
  /\ ScoreStep(Score, CalculateFinalScore(Score), "calculateFinalScore")
  /\ UNCHANGED now

DoCheckHighScore ==
  /\ ScoreStep(CheckHighScore(Score), IsHighScore(Score), "checkHighScore")
  /\ UNCHANGED now

DoScoreReset ==
  /\ ScoreStep(ScoreReset(Score), 0, "reset")
  /\ UNCHANGED now

ScoreInit ==
  /\ EngineInit
  /\ CarIdle
  /\ CollisionIdle
  /\ ManagerIdle
  /\ PageIdle
  /\ score = 0
  /\ highScore = 0
  /\ distanceTravelled = 0
  /\ lives = maxLives
  /\ combo = 0
  /\ maxCombo = 0
  /\ timeSurvived = 0
  /\ comboTimer = 0
  /\ lastObstacleAvoidanceTime = 0
  /\ now = Epoch
  /\ storage \in StoredScores
  /\ returned = 0
  /\ scoreCalls = 0

ScoreNext ==
  \/ DoScoreInitialize
  \/ DoScoreUpdate
  \/ DoAwardObstacleAvoidance
  \/ DoLoseLife
  \/ DoGainLife
  \/ DoCalculateFinalScore
  \/ DoCheckHighScore
  \/ DoScoreReset

SpecScore == ScoreInit /\ [][ScoreNext]_vars

(***************************************************************************)
(* A run at a constant speed: the score manager is new, the car keeps its  *)
(* speed, and update is called with ticks of several lengths.              *)
(***************************************************************************)
TickDeltas == {SCALE \div 10, SCALE \div 4, SCALE}
TickSpeeds == {0, 20 * SCALE}

\* The run is followed for this long, in hundredths of a second.
TickLimit == 200

TickInit ==
  /\ EngineInit
  /\ keys = {}
  /\ car = TRUE
  /\ speed \in TickSpeeds
  /\ rotation = 0
  /\ position = [x |-> 0, z |-> 0]
  /\ settings = [sensitivity |-> SCALE, invertSteering |-> FALSE]
  /\ moves = 0
  /\ lastDelta = 0
  /\ heldTime = 0
  /\ CollisionIdle
  /\ ManagerIdle
  /\ ScoreIdle
  /\ PageIdle

DoTickUpdate ==
  \E dt \in TickDeltas :
    /\ timeSurvived + dt <= TickLimit
    /\ SetScore(ScoreUpdate(Score, dt, speed))
    /\ returned' = 0
    /\ lastOp' = Op("update")
    /\ UNCHANGED <<now, scoreCalls, engineVars, carVars, moves, lastDelta, heldTime,
                   collisionVars, managerVars, pageVars>>

TickNext == DoTickUpdate

SpecTicks == TickInit /\ [][TickNext]_vars

(***************************************************************************)
(* HomePage (src/src/lib/game/ScoreManager.ts, from line 381): the page that *)
(* shows the menu, the settings screen or the game view with its overlays. *)
(* Of gameStats the score, the health and the high score are kept; the     *)
(* other fields are set where the score is.  The game view reports stats   *)
(* and the end of a game through the callbacks the page hands it.          *)
(***************************************************************************)
\* What the game view reports as score and as health.
ReportedScores == {0, 10, 20, 30}
ReportedHealths == {0, 50, 100}
SavedHighScores == {0, 20}

Page ==
  [gameState |-> homeGameState, gameStats |-> gameStats, sound |-> sound,
   savedHighScore |-> savedHighScore]

SetPage(p) ==
  /\ homeGameState' = p.gameState
  /\ gameStats' = p.gameStats
  /\ sound' = p.sound
  /\ savedHighScore' = p.savedHighScore

\* The screens that render a button for each handler.
StartShown(p) == p.gameState \in {"menu", "gameOver"}
PauseShown(p) == p.gameState \in {"playing", "paused"}
ResetShown(p) == p.gameState \in {"paused", "gameOver"}

\* A Settings button on the pause menu as well as on the main menu.
SettingsShownInPause(p) == p.gameState \in {"menu", "paused"}

SettingsShown(p) == p.gameState = "menu"

\* Game3D is rendered: the page shows neither the menu nor the settings.
Game3DMounted(p) == p.gameState \notin {"menu", "settings"}

HomeStartGame(p) ==
  [p EXCEPT !.gameState = "playing",
            !.gameStats = [@ EXCEPT !.score = 0, !.health = 100]]

HomePauseGame(p) ==
  [p EXCEPT !.gameState = IF p.gameState = "paused" THEN "playing" ELSE "paused"]

HomeEndGame(p, finalScore) ==
  LET newStats == [p.gameStats EXCEPT !.score = finalScore]
  IN  IF newStats.score > newStats.highScore
        THEN [p EXCEPT !.gameStats = [newStats EXCEPT !.highScore = newStats.score],
                       !.savedHighScore = newStats.score,
                       !.gameState = "gameOver"]
        ELSE [p EXCEPT !.gameStats = newStats, !.gameState = "gameOver"]

HomeResetGame(p) == [p EXCEPT !.gameState = "menu"]

HomeOpenSettings(p) == [p EXCEPT !.gameState = "settings"]

\* The settings screen's Back to Menu button
HomeCloseSettings(p) == [p EXCEPT !.gameState = "menu"]

HomeToggleSound(p) == [p EXCEPT !.sound = ~p.sound]

\* onStatsUpdate, called by the game view in a tick of a running game
HomeStatsUpdate(p, newScore, newHealth) ==
  [p EXCEPT !.gameStats = [@ EXCEPT !.score = newScore, !.health = newHealth]]

PageStep(p, op) ==
  /\ SetPage(p)
  /\ lastOp' = Op(op)
  /\ UNCHANGED <<engineVars, carVars, moves, lastDelta, heldTime, collisionVars, managerVars,
               scoreVars>>

DoHomeStartGame == StartShown(Page) /\ PageStep(HomeStartGame(Page), "startGame")
DoHomePauseGame == PauseShown(Page) /\ PageStep(HomePauseGame(Page), "pauseGame")
DoHomeResetGame == ResetShown(Page) /\ PageStep(HomeResetGame(Page), "resetGame")

DoHomeOpenSettings ==
  SettingsShown(Page) /\ PageStep(HomeOpenSettings(Page), "openSettings")

DoHomeCloseSettings ==
  /\ homeGameState = "settings"
  /\ PageStep(HomeCloseSettings(Page), "closeSettings")

DoHomeToggleSound ==
  /\ homeGameState = "settings"
  /\ PageStep(HomeToggleSound(Page), "toggleSound")

DoHomeStatsUpdate ==
  /\ Game3DMounted(Page)
  /\ homeGameState = "playing"
  /\ \E newScore \in ReportedScores, newHealth \in ReportedHealths :
       PageStep(HomeStatsUpdate(Page, newScore, newHealth), "statsUpdate")

DoHomeEndGame ==
  /\ Game3DMounted(Page)
  /\ homeGameState = "playing"
  /\ \E finalScore \in ReportedScores :
       PageStep(HomeEndGame(Page, finalScore), "endGame")

\* The page after its first effect has read the saved high score.
PageInit ==
  /\ EngineInit
  /\ CarIdle
  /\ CollisionIdle
  /\ ManagerIdle
  /\ ScoreIdle
  /\ homeGameState = "menu"
  /\ savedHighScore \in SavedHighScores
  /\ gameStats = [score |-> 0, health |-> 100, highScore |-> savedHighScore]
  /\ sound = TRUE

PageNext ==
  \/ DoHomeStartGame
  \/ DoHomePauseGame
  \/ DoHomeResetGame
  \/ DoHomeOpenSettings
  \/ DoHomeCloseSettings
  \/ DoHomeToggleSound
  \/ DoHomeStatsUpdate
  \/ DoHomeEndGame

SpecPage == PageInit /\ [][PageNext]_vars

(***************************************************************************)
(* Claims about the GameEngine                                             *)
(***************************************************************************)
EngineFields == <<gameState, stats, animationId, frameQueue, nextFrameId, keys>>

\* C1: a tick that takes lives from 1 to 0 ends in GAME_OVER and requests no
\* further frame callback, and no frame callback that fires in GAME_OVER runs
\* a game update.
C1_GameOverStopsScheduling ==
  [][ /\ (stats.lives = 1 /\ stats'.lives = 0) =>
           (gameState' = GAME_OVER /\ nextFrameId' = nextFrameId)
      /\ (gameState = GAME_OVER /\ lastOp'.op = "frame") =>
           updateCount' = updateCount ]_vars

\* C2: at most one frame callback of the game loop is pending at any time.
C2_SinglePendingFrame == Len(frameQueue) <= 1

\* A step that starts or resumes play.
StartsOrResumes ==
  \/ lastOp'.op \in {"startGame", "resumeGame"}
  \/ lastOp'.op = "keydown" /\ lastOp'.code = "Escape" /\ gameState = PAUSED

\* C3: outside PLAYING a frame callback changes nothing and requests no
\* frame, and no handler other than a start or a resume runs a game update
\* or requests a frame.
C3_UpdatesOnlyWhilePlaying ==
  [][ (gameState # PLAYING /\ ~StartsOrResumes) =>
        /\ updateCount' = updateCount
        /\ nextFrameId' = nextFrameId
        /\ lastOp'.op = "frame" =>
             /\ <<gameState, stats, animationId, keys>>' =
                  <<gameState, stats, animationId, keys>>
             /\ frameQueue' = Tail(frameQueue) ]_vars

\* A frame callback has fired while the game was paused.
C3_Witness == lastOp.op = "frame" /\ gameState = PAUSED /\ updateCount > 0

\* The state changes the last handler made: from each state to the next one set.
Changes(from, trail) ==
  {<<(<<from>> \o trail)[i], (<<from>> \o trail)[i + 1]>> : i \in 1..Len(trail)}

DocumentedTransitions ==
  {<<MENU, PLAYING>>, <<PLAYING, PAUSED>>, <<PAUSED, PLAYING>>,
   <<PLAYING, GAME_OVER>>, <<GAME_OVER, MENU>>, <<GAME_OVER, PLAYING>>,
   <<MENU, MENU>>}

\* What every handler keeps, whatever the transition list.
TransitionRules(allowed) ==
  /\ \A c \in Changes(gameState, notified') :
       /\ c[1] # c[2] => c \in allowed
       /\ c[2] = PAUSED => c[1] = PLAYING
       /\ c[2] = GAME_OVER => (c[1] = PLAYING /\ stats'.lives <= 0)
  /\ (lastOp'.op = "pauseGame" /\ gameState # PLAYING) =>
       (EngineFields' = EngineFields /\ notified' = <<>>)
  /\ (lastOp'.op = "resumeGame" /\ gameState # PAUSED) =>
       (EngineFields' = EngineFields /\ notified' = <<>>)

WindowStep == lastOp'.op \in {"keydown", "keyup", "blur", "focus", "resize", "frame"}

\* C24: once dispose has been called no frame callback is pending, and no
\* window event or frame makes a game update or changes the game state.
C24_NothingAfterDispose ==
  /\ [](disposed => frameQueue = <<>>)
  /\ [][(disposed /\ WindowStep) =>
          (updateCount' = updateCount /\ gameState' = gameState)]_vars

\* The last step resumed play: resumeGame, or Escape while PAUSED.
Resumed ==
  /\ gameState = PLAYING
  /\ lastOp.from = PAUSED
  /\ lastOp.op \in {"resumeGame", "keydown"}

\* C27: when play has resumed, the keys that the car controller takes as
\* pressed are keys that are physically down.
C27_KeysLiveAfterResume == Resumed => keys \subseteq held

(***************************************************************************)
(* Claims about the car                                                    *)
(***************************************************************************)

\* C6: after any sequence of update, handleCollision and reset calls, with
\* any tick length and any keys held, the lateral position of the car lies
\* within the road's half width, [-8, 8].
C6_LateralPositionOnRoad ==
  /\ position.x >= -roadHalfWidth * SCALE
  /\ position.x <= roadHalfWidth * SCALE

\* An update of positive length left the car on the edge of the road.
C6_Witness ==
  /\ car
  /\ lastOp.op = "update"
  /\ lastDelta > 0
  /\ Abs(position.x) = roadHalfWidth * SCALE

\* C7: after any sequence of update calls under any keys, with collision
\* impulses and resets between them, the speed lies within
\* [-maxSpeed / 2, maxSpeed].
C7_SpeedWithinCaps ==
  /\ 2 * speed >= -maxSpeed * SCALE
  /\ speed <= maxSpeed * SCALE

\* The car was accelerated up to its maximum speed.
C7_Witness ==
  /\ car
  /\ lastOp.op = "update"
  /\ "ArrowUp" \in keys
  /\ speed = maxSpeed * SCALE

\* C8: while neither accelerate nor brake is pressed, no tick raises the
\* magnitude of the speed, no tick changes its sign, and with ticks of
\* positive length the speed reaches exactly 0 and stays there.
C8_CoastingDecaysToRest ==
  /\ [][ /\ Abs(speed') <= Abs(speed)
         /\ speed * speed' >= 0 ]_vars
  /\ <>[](speed = 0)

\* A car that rolled has come to rest away from where it started.
C8_Witness ==
  /\ lastOp.op = "update"
  /\ lastDelta > 0
  /\ speed = 0
  /\ position.z # 0

\* C16: a car that stood when the accelerate key went down, with no other
\* key held, has after ticks that add up to T the speed min(15 * T, maxSpeed),
\* however T is split into ticks, and the heading it had.
C16_SpeedFromHeldTime ==
  /\ speed = Min(15 * heldTime, maxSpeed * SCALE)
  /\ rotation = 0

\* The key was held for two seconds, the last tick a tenth of a second, and
\* the car moves at the cap.
C16_Witness ==
  /\ lastOp.op = "update"
  /\ heldTime = 2 * SCALE
  /\ lastDelta = SCALE \div 10
  /\ speed = maxSpeed * SCALE

(***************************************************************************)
(* Claims about the CollisionDetector                                      *)
(***************************************************************************)

\* C9: checkCollisions reports a hit only for an obstacle that is active and
\* whose bounding box intersects the car's; with no active obstacle the
\* result is hasCollision false.
C9_HitOnlyActiveIntersecting ==
  result.hasCollision =>
    /\ result.obstacle \in 1..Len(obstacleData)
    /\ obstacleData[result.obstacle].isActive
    /\ IntersectsBox(carBoundingBox, obstacleData[result.obstacle].mesh)

\* The second obstacle was reported after the first, which the car's box
\* intersects too, was passed over as inactive.
C9_Witness ==
  /\ lastOp.op = "checkCollisions"
  /\ result.hasCollision
  /\ result.obstacle = 2
  /\ ~obstacleData[1].isActive
  /\ IntersectsBox(carBoundingBox, obstacleData[1].mesh)

\* C10: when the car's box lies fully inside the box of an active obstacle,
\* checkCollisions returns hasCollision true and an obstacle no later in
\* the list than that one.
C10_ContainedCarCollides ==
  lastOp.op = "checkCollisions" =>
    \A i \in 1..Len(obstacleData) :
      (obstacleData[i].isActive /\ ContainsBox(obstacleData[i].mesh, carBoundingBox))
        => (result.hasCollision /\ result.obstacle <= i)

\* C14: checkCollisions returns what a detector fresh from its constructor
\* (raycaster.far = Infinity) returns for the same car box and obstacles,
\* whatever calls of isPathClear were made before.
C14_ResultOfArgumentsOnly ==
  [][ lastOp'.op = "checkCollisions" =>
        result' = CheckCollisions(carBoundingBox, obstacleData, Infinity).result ]_vars

(***************************************************************************)
(* Claims about the ObstacleManager                                        *)
(***************************************************************************)
ActiveOfType(type) ==
  {i \in 1..Len(obstacles) : obstacles[i].type = type /\ obstacles[i].isActive}

\* C5: the active obstacles of each type are never more than the pool size,
\* 20, and the active obstacles never more than 60 in all.
C5_ActiveWithinPoolSize ==
  /\ \A type \in ObstacleTypes : Cardinality(ActiveOfType(type)) <= poolSize
  /\ Len(obstacles) <= poolSize * Cardinality(ObstacleTypes)

\* With a single initialize the cap holds: the obstacles of a type are then
\* backed by distinct meshes of the one pool.
ActiveWithinPoolSizeOnePool == poolId <= 1 => C5_ActiveWithinPoolSize

\* A pool of one type is used up while only one pool was ever made.
PoolExhausted ==
  /\ poolId = 1
  /\ \E type \in ObstacleTypes : Cardinality(ActiveOfType(type)) = poolSize

\* A call of the named method on the obstacle manager is made in this step.
ManagerCall(name) == calls' = calls + 1 /\ lastOp'.op = name

\* The manager with no obstacle, every pooled mesh free and the counters as
\* the constructor sets them; Math.random goes on where it is.
Pristine ==
  [Manager EXCEPT !.obstacles = <<>>,
                  !.obstaclePool =
                    [type \in ObstacleTypes |-> [i \in 1..poolSize |-> FALSE]],
                  !.lastSpawnZ = firstSpawnZ * SCALE,
                  !.difficulty = SCALE,
                  !.timeSinceStart = 0,
                  !.spawnLog = <<>>]

\* The z of the patterns of an initial batch, and how far behind its pattern's
\* z an obstacle can be placed (narrow passage: 5; cones: 8 apart).
StartLines == {20, 35, 50, 65, 80, 95}
PatternOffsets == {0, 5, 8, 16, 24}

\* C12: after reset the difficulty, the elapsed time and lastSpawnZ are as
\* after initialize on a new manager, the active obstacles are exactly an
\* initial batch spawned from a pool that is all free (patterns at the start
\* lines 20, 35, ..., 95), and every pooled mesh that is not of the batch is free.
C12_ResetRestoresInitial ==
  [][ ManagerCall("reset") =>
        /\ difficulty' = SCALE
        /\ timeSinceStart' = 0
        /\ lastSpawnZ' = firstSpawnZ * SCALE
        /\ obstacles' = SpawnInitialObstacles(Pristine).obstacles
        /\ \A i \in 1..Len(obstacles') :
             /\ obstacles'[i].isActive
             /\ \E z \in StartLines, d \in PatternOffsets :
                  obstacles'[i].position.z = (z + d) * SCALE
        /\ \A type \in ObstacleTypes, k \in 1..poolSize :
             obstaclePool'[type][k] <=>
               \E i \in 1..Len(obstacles') :
                 /\ obstacles'[i].type = type
                 /\ obstacles'[i].mesh = [pool |-> poolId', index |-> k] ]_vars

\* A reset was made on a manager that has a scene, as the third call or
\* later, and a batch is out.
C12_Witness ==
  /\ lastOp.op = "reset"
  /\ calls >= 3
  /\ scene
  /\ Len(obstacles) >= 6

\* C19: after an update no active obstacle lies more than 50 behind the car
\* position that the update was given, and the mesh of every obstacle that
\* the update removed is free in the pool, or in use again for an obstacle
\* that the update spawned.
C19_NoneLeftBehind ==
  [][ ManagerCall("update") =>
        /\ \A i \in 1..Len(obstacles') :
             obstacles'[i].isActive =>
               obstacles'[i].position.z >= lastCarZ' - 50 * SCALE
        /\ \A n \in 1..Len(obstacles) :
             (Behind(Manager, obstacles[n], lastCarZ')
                /\ obstacles[n].mesh.pool = poolId)
             => \/ ~obstaclePool'[obstacles[n].type][obstacles[n].mesh.index]
                \/ \E i \in 1..Len(obstacles') :
                     obstacles'[i].mesh = obstacles[n].mesh ]_vars

\* Difficulties from 1 to 5.
Difficulties == {SCALE, (3 * SCALE) \div 2, 2 * SCALE, (7 * SCALE) \div 2, 5 * SCALE}

\* C20: an update ends with lastSpawnZ at least the car position plus
\* spawnDistance, with the pool exhausted too; a round of the spawn loop
\* raises lastSpawnZ at every difficulty in [1, 5]; and no call but reset
\* lowers lastSpawnZ.
C20_SpawnLoopAdvances ==
  /\ [](\A d \in Difficulties :
          SpawnNext([Manager EXCEPT !.difficulty = d]).lastSpawnZ > lastSpawnZ)
  /\ [][ /\ ManagerCall("update") =>
              lastSpawnZ' >= lastCarZ' + spawnDistance * SCALE
         /\ lastOp'.op # "reset" => lastSpawnZ' >= lastSpawnZ ]_vars

\* An update for a car at 130 ran the loop for five rounds or more, one of
\* them a barrier pattern that found no barrier mesh free and placed nothing.
C20_Witness ==
  /\ lastOp.op = "update"
  /\ lastCarZ = 130 * SCALE
  /\ Len(spawnLog) >= 5
  /\ \E k \in 1..Len(spawnLog) :
       /\ spawnLog[k].pattern \in {0, 1}
       /\ spawnLog[k].freeBarriers = 0
       /\ spawnLog[k].to = spawnLog[k].from
  /\ lastSpawnZ >= lastCarZ + spawnDistance * SCALE

\* The double barrier patterns that the last call on the manager spawned.
DoubleBarriers == {k \in 1..Len(spawnLog) : spawnLog[k].pattern = 1}

\* The obstacle is an active barrier at z.
BarrierAt(o, z) == o.type = "barrier" /\ o.isActive /\ o.position.z = z

\* Two lateral positions c - g/2 and c + g/2 with c in [-3, 3] and g in [4, 6]
GapAround(x1, x2) ==
  /\ 4 * SCALE <= x2 - x1 /\ x2 - x1 <= 6 * SCALE
  /\ -6 * SCALE <= x1 + x2 /\ x1 + x2 <= 6 * SCALE

\* C17: a double barrier pattern spawned at z has added exactly two
\* obstacles, active barriers at z, at c - g/2 and c + g/2 for a centre c in
\* [-3, 3] and a gap g in [4, 6].
C17_DoubleBarrierAddsTwo ==
  \A k \in DoubleBarriers :
    LET e == spawnLog[k]
    IN  /\ e.to = e.from + 2
        /\ BarrierAt(obstacles[e.from + 1], e.z)
        /\ BarrierAt(obstacles[e.from + 2], e.z)
        /\ GapAround(obstacles[e.from + 1].position.x,
                     obstacles[e.from + 2].position.x)

\* C17 with the pool taken into account: the pattern adds the two barriers
\* when two barrier meshes are free, the first of them alone (at c - g/2)
\* when one is, and nothing when none is.
C17_DoubleBarrierWithinPool ==
  \A k \in DoubleBarriers :
    LET e == spawnLog[k]
    IN  /\ e.to = e.from + Min(2, e.freeBarriers)
        /\ \A i \in (e.from + 1)..e.to : BarrierAt(obstacles[i], e.z)
        /\ e.to = e.from + 2 =>
             GapAround(obstacles[e.from + 1].position.x,
                       obstacles[e.from + 2].position.x)
        /\ e.to = e.from + 1 =>
             /\ -6 * SCALE <= obstacles[e.to].position.x
             /\ obstacles[e.to].position.x <= SCALE

\* A double barrier was spawned while one barrier mesh was free, and one
\* barrier was added.
C17_Witness ==
  \E k \in DoubleBarriers :
    /\ spawnLog[k].freeBarriers = 1
    /\ spawnLog[k].to = spawnLog[k].from + 1
    /\ BarrierAt(obstacles[spawnLog[k].to], spawnLog[k].z)

\* The obstacle lies on the side of the start line to which the car has
\* driven, and farther along than the car.
AheadOfCar(o) ==
  IF position.z > 0 THEN o.position.z > position.z ELSE o.position.z < position.z

\* C21: once the car has driven off from the start pose, every active
\* obstacle (each placed by initialize or by an update) lies ahead of it in
\* its direction of travel, and there are obstacles ahead of it.
C21_PatternsAhead ==
  (lastOp.op = "updateGame" /\ position.z # 0) =>
    /\ \A i \in 1..Len(obstacles) : AheadOfCar(obstacles[i])
    /\ \E i \in 1..Len(obstacles) : AheadOfCar(obstacles[i])

\* C22: no active obstacle lies beyond lastSpawnZ, and a pattern that the
\* last call spawned lies beyond every obstacle that was there before it.
C22_NothingBeyondLastSpawnZ ==
  /\ \A i \in 1..Len(obstacles) :
       obstacles[i].isActive => obstacles[i].position.z <= lastSpawnZ
  /\ \A k \in 1..Len(spawnLog) :
       \A i \in 1..spawnLog[k].from : obstacles[i].position.z < spawnLog[k].z

\* C23: after an update, a moving obstacle that is beyond the road boundary
\* (|x| > 7) has its direction pointing back toward the road.
C23_PointsBackWhenBeyond ==
  lastOp.op = "update" =>
    \A i \in 1..Len(obstacles) :
      (obstacles[i].speed # 0 /\ obstacles[i].direction # 0) =>
        /\ obstacles[i].position.x > 7 * SCALE => obstacles[i].direction = -1
        /\ obstacles[i].position.x < -7 * SCALE => obstacles[i].direction = 1

\* C25: after an update the difficulty is min(1 + elapsed / 30, 5); it is
\* between 1 and 5 in every state, and only reset lowers it.
C25_DifficultyFromElapsed ==
  /\ [](lastOp.op = "update" => difficulty = Min(SCALE + elapsed \div 30, 5 * SCALE))
  /\ [](SCALE <= difficulty /\ difficulty <= 5 * SCALE)
  /\ [][lastOp'.op # "reset" => difficulty' >= difficulty]_vars

\* The gap between the two walls that spawnWallGap places: they stand at
\* gapCenter - gapWidth / 2 - 4 and gapCenter + gapWidth / 2 + 4.
WallGapWidth(m) ==
  LET after == SpawnWallGap(m, 0)
      n == Len(after.obstacles)
  IN  after.obstacles[n].position.x - after.obstacles[n - 1].position.x - 8 * SCALE

\* The gaps that spawnWallGap can leave at difficulty d, over Math.random.
GapWidthsAt(d) ==
  {WallGapWidth([Manager EXCEPT !.difficulty = d, !.rng = r]) : r \in Seeds}

\* The widest of a set of gaps.
Widest(gaps) == CHOOSE w \in gaps : \A v \in gaps : v <= w

\* C26: where a wall gap can be spawned, the widest gap at a higher
\* difficulty is no wider than at a lower one, and the widest gap at
\* difficulty 5 is narrower than the widest at difficulty 1.
C26_GapNarrowsWithDifficulty ==
  (scene /\ Cardinality(FreeMeshes(Manager, "wall")) >= 2) =>
    /\ \A d1, d2 \in Difficulties :
         d1 < d2 => Widest(GapWidthsAt(d2)) <= Widest(GapWidthsAt(d1))
    /\ Widest(GapWidthsAt(5 * SCALE)) < Widest(GapWidthsAt(SCALE))

\* The obstacles that the pooled mesh k of a type backs.
BackedBy(type, k) ==
  {i \in 1..Len(obstacles) :
     /\ obstacles[i].isActive
     /\ obstacles[i].type = type
     /\ obstacles[i].mesh = [pool |-> poolId, index |-> k]}

\* C30: no mesh backs two active obstacles, and a mesh of the pool is
\* visible, which is what marks it as in use, exactly when it backs an
\* active obstacle.
C30_PoolMatchesObstacles ==
  /\ \A i, j \in 1..Len(obstacles) :
       (i # j /\ obstacles[i].type = obstacles[j].type)
         => obstacles[i].mesh # obstacles[j].mesh
  /\ \A type \in ObstacleTypes : \A k \in 1..poolSize :
       obstaclePool[type][k] <=> BackedBy(type, k) # {}

\* An update has spawned an obstacle on a mesh that cleanup had returned:
\* its index is below that of a mesh of an obstacle that was there before.
C30_Witness ==
  /\ lastOp.op = "update"
  /\ spawnLog # <<>>
  /\ \E i, j \in 1..Len(obstacles) :
       /\ j <= spawnLog[1].from
       /\ i > spawnLog[1].from
       /\ obstacles[i].type = obstacles[j].type
       /\ obstacles[i].mesh.pool = obstacles[j].mesh.pool
       /\ obstacles[i].mesh.index < obstacles[j].mesh.index

(***************************************************************************)
(* Claims about the ScoreManager                                           *)
(***************************************************************************)
\* A call of the named method on the score manager is made in this step.
ScoreCall(name) == scoreCalls' = scoreCalls + 1 /\ lastOp'.op = name

\* C11: an avoidance awarded within 2.0 seconds of the award before it raises
\* the combo by exactly 1; one awarded later than that, or the first one after
\* a reset, sets the combo to 1; every loseLife sets the combo to 0.
C11_ComboRule ==
  [][ /\ ScoreCall("awardObstacleAvoidance") =>
           IF lastObstacleAvoidanceTime # 0
                /\ now' - lastObstacleAvoidanceTime <= 2 * SCALE
             THEN combo' = combo + 1
             ELSE combo' = 1
      /\ ScoreCall("loseLife") => combo' = 0 ]_vars

\* Two awards 2.0 seconds apart have made a combo of 2.
C11_Witness ==
  /\ lastOp.op = "awardObstacleAvoidance"
  /\ combo = 2
  /\ now - Epoch = 2 * (2 * SCALE)

\* What each of the four inputs of calculateFinalScore is raised by: whole
\* points and combos, and hundredths of a second and of a unit of distance.
Raises == {1, 2, 990 * SCALE, 1000 * SCALE}

\* C13: calculateFinalScore does not decrease when one of score, timeSurvived,
\* distance and maxCombo is raised and the others are kept; a call of it
\* changes no field of the score manager, and a call right after it would
\* return the same value.
C13_FinalScoreMonotoneAndPure ==
  /\ [](\A d \in Raises :
          /\ CalculateFinalScore([Score EXCEPT !.score = @ + d])
               >= CalculateFinalScore(Score)
          /\ CalculateFinalScore([Score EXCEPT !.timeSurvived = @ + d])
               >= CalculateFinalScore(Score)
          /\ CalculateFinalScore([Score EXCEPT !.distance = @ + d])
               >= CalculateFinalScore(Score)
          /\ CalculateFinalScore([Score EXCEPT !.maxCombo = @ + d])
               >= CalculateFinalScore(Score))
  /\ [][ ScoreCall("calculateFinalScore") =>
           /\ UNCHANGED scoreFields
           /\ returned' = CalculateFinalScore(Score)
           /\ CalculateFinalScore(Score') = returned' ]_vars

\* calculateFinalScore was called with every bonus at work: a distance past
\* the first 1000, a combo and some time survived.
C13_Witness ==
  /\ lastOp.op = "calculateFinalScore"
  /\ distanceTravelled >= 1000 * SCALE
  /\ maxCombo >= 1
  /\ timeSurvived > 0
  /\ returned = score + Floor(timeSurvived * 50) + 1000 + maxCombo * 200

\* C18: checkHighScore returns true exactly when calculateFinalScore() is
\* more than highScore, and then highScore is that value and is saved; no
\* operation, reset among them, lowers highScore; and a checkHighScore made
\* right after one returns false.
C18_HighScoreKept ==
  [][ /\ ScoreCall("checkHighScore") =>
           /\ returned' = (CalculateFinalScore(Score) > highScore)
           /\ IF CalculateFinalScore(Score) > highScore
                THEN /\ highScore' = CalculateFinalScore(Score)
                     /\ ParseInt(storage') = highScore'
                ELSE UNCHANGED <<highScore, storage>>
           /\ lastOp.op = "checkHighScore" => returned' = FALSE
           /\ ~IsHighScore(Score')
      /\ highScore' >= highScore ]_vars

\* A check stored a high score above 250, and the check that came right
\* after it returned false.
C18_Witness ==
  /\ lastOp.op = "checkHighScore"
  /\ returned = FALSE
  /\ highScore > 250
  /\ storage = NumberToString(highScore)
  /\ score > 0

\* The score of a new score manager after one tick of the whole time that
\* has passed, at the car's speed.
SingleTickScore == ScoreUpdate(ScoreReset(Score), timeSurvived, speed).score

\* C28: at a constant speed the score is that of a single tick of the same
\* total time, but for one point of rounding in each of the three
\* components (distance, speed bonus, survival time).
C28_ScoreIndependentOfTicks ==
  lastOp.op = "update" => Abs(score - SingleTickScore) <= 3

\* C29: an avoidance awarded while the combo is above 0 raises the combo by
\* exactly 1.
C29_AwardExtendsLiveCombo ==
  [][(ScoreCall("awardObstacleAvoidance") /\ combo > 0) => combo' = combo + 1]_vars

(***************************************************************************)
(* Claims about the HomePage                                               *)
(***************************************************************************)
\* C15: the settings can be opened from every other game state, the game
\* view reports no tick while they are shown, and opening and closing them
\* leaves gameStats as it was.
C15_SettingsFromAnyState ==
  /\ [](homeGameState # "settings" => ENABLED DoHomeOpenSettings)
  /\ [][ /\ homeGameState = "settings" => lastOp'.op # "statsUpdate"
         /\ (homeGameState = "settings" \/ homeGameState' = "settings")
              => gameStats' = gameStats ]_vars

\* C15 as the page has it: the settings are opened from the menu only and
\* closed to the menu only; while they are shown the game view is not
\* rendered and reports nothing; opening and closing them changes no stats.
C15_SettingsFromMenuOnly ==
  [][ /\ (homeGameState # "settings" /\ homeGameState' = "settings")
           => homeGameState = "menu" /\ lastOp'.op = "openSettings"
      /\ (homeGameState = "settings" /\ homeGameState' # "settings")
           => homeGameState' = "menu"
      /\ homeGameState = "settings"
           => ~Game3DMounted(Page) /\ lastOp'.op \notin {"statsUpdate", "endGame"}
      /\ (homeGameState = "settings" \/ homeGameState' = "settings")
           => gameStats' = gameStats ]_vars

\* The settings were closed after a game had been played, and the menu
\* still holds that game's score.
C15_Witness ==
  /\ lastOp.op = "closeSettings"
  /\ homeGameState = "menu"
  /\ gameStats.score > 0
  /\ gameStats.health < 100

====